---- MODULE Spec2Model ----
(***************************************************************************)
(* DataHash_v2_core: a C++ MEX function that hands a uint8 array to XXH64  *)
(* (seed 0) and returns the digest as a uint64 scalar.                     *)
(*                                                                         *)
(* The model has three layers:                                             *)
(*   1. 64-bit unsigned arithmetic on little-endian byte tuples (TLC's     *)
(*      integers are 32 bits wide, XXH64 needs wrap-around at 2^64);       *)
(*   2. XXH64 itself, computed as xxHash computes it;                      *)
(*   3. MexFunction::operator(), one action per statement, run by a host   *)
(*      that owns the argument lists and a reference-counted buffer heap.  *)
(***************************************************************************)
EXTENDS Integers, Sequences, FiniteSets, TLC

(***************************************************************************)
(* Bounds of the model.                                                    *)
(***************************************************************************)
\* longest input array of the sequential host (Spec)
MaxLen == 3
\* longest input array of the host that remembers the previous call (SpecHist)
MaxHistLen == 2
\* longest input array of the host that runs two calls at once (SpecConc)
MaxConcLen == 1

(***************************************************************************)
(* Layer 1: uint64_t as a tuple of 8 bytes, least significant first.       *)
(***************************************************************************)
Byte == 0..255

\* Op(v), Op(v, w): the operands are evaluated once, on entry, as C evaluates the
\* arguments of a call (TLC would otherwise evaluate an operand at each of its uses)
Bind1(v, Op(_)) == CHOOSE r \in {Op(x) : x \in {v}} : TRUE
Bind2(v, w, Op(_, _)) == CHOOSE r \in {Op(x, y) : x \in {v}, y \in {w}} : TRUE

RECURSIVE NatBytes(_, _)
\* the k low bytes of the natural number n, least significant first
NatBytes(n, k) ==
    IF k = 0 THEN <<>>
    ELSE Bind1(n, LAMBDA m : <<m % 256>> \o NatBytes(m \div 256, k - 1))

\* conversion of a small unsigned value (size_t, unsigned long, uint8_t) to uint64_t
ToU64(n) == NatBytes(n, 8)

U64Zero == ToU64(0)

RECURSIVE Propagate(_, _, _)
\* column sums to bytes: carries move up, the carry out of byte 8 is dropped (mod 2^64)
Propagate(cols, i, carry) ==
    IF i > 8 THEN <<>>
    ELSE Bind1(cols[i] + carry,
               LAMBDA t : <<t % 256>> \o Propagate(cols, i + 1, t \div 256))

Carry(cols) == Bind1(cols, LAMBDA t : Propagate(t, 1, 0))

\* a function on 1..8 written out as a tuple
Tup8(F(_)) == <<F(1), F(2), F(3), F(4), F(5), F(6), F(7), F(8)>>

Add64(a, b) == Bind2(a, b, LAMBDA x, y : Carry(Tup8(LAMBDA i : x[i] + y[i])))

RECURSIVE Column(_, _, _, _)
\* sum of a[i] * b[k+1-i] for i in lo..k
Column(a, b, k, lo) ==
    IF lo > k THEN 0 ELSE a[lo] * b[k + 1 - lo] + Column(a, b, k, lo + 1)

Mul64(a, b) == Bind2(a, b, LAMBDA x, y : Carry(Tup8(LAMBDA k : Column(x, y, k, 1))))

\* two's complement negation, for seed - PRIME64_1
Neg64(a) == Bind1(a, LAMBDA x : Add64(Tup8(LAMBDA i : 255 - x[i]), ToU64(1)))

RECURSIVE XorBits(_, _, _)
XorBits(a, b, k) ==
    IF k = 0 THEN 0
    ELSE ((a + b) % 2) + 2 * XorBits(a \div 2, b \div 2, k - 1)

Xor64(a, b) == Bind2(a, b, LAMBDA x, y : Tup8(LAMBDA i : XorBits(x[i], y[i], 8)))

ByteAt(a, i) == IF i \in 1..8 THEN a[i] ELSE 0

\* a << r, for 0 < r < 64
Shl64(a, r) ==
    Bind1(a, LAMBDA x :
        Carry(Tup8(LAMBDA i : ByteAt(x, i - (r \div 8)) * (2 ^ (r % 8)))))

\* a >> r, for 0 < r < 64
Shr64(a, r) ==
    Bind1(a, LAMBDA x :
        Tup8(LAMBDA i :
            ((ByteAt(x, i + (r \div 8)) + 256 * ByteAt(x, i + (r \div 8) + 1))
                \div (2 ^ (r % 8))) % 256))

\* XXH_rotl64: (a << r) | (a >> (64 - r)); the two halves have no bit in common
Rotl64(a, r) == Bind1(a, LAMBDA x : Add64(Shl64(x, r), Shr64(x, 64 - r)))

(***************************************************************************)
(* Layer 2: XXH64 (xxHash 0.8.2, xxhash.h), little-endian reads.           *)
(***************************************************************************)
\* 0x9E3779B185EBCA87
XXH_PRIME64_1 == <<135, 202, 235, 133, 177, 121, 55, 158>>
\* 0xC2B2AE3D27D4EB4F
XXH_PRIME64_2 == <<79, 235, 212, 39, 61, 174, 178, 194>>
\* 0x165667B19E3779F9
XXH_PRIME64_3 == <<249, 121, 55, 158, 177, 103, 86, 22>>
\* 0x85EBCA77C2B2AE63
XXH_PRIME64_4 == <<99, 174, 178, 194, 119, 202, 235, 133>>
\* 0x27D4EB2F165667C5
XXH_PRIME64_5 == <<197, 103, 86, 22, 47, 235, 212, 39>>

\* XXH_readLE64(p + off): p is 1-indexed here, off counts bytes already consumed
XXH_readLE64(p, off) == Tup8(LAMBDA i : p[off + i])

\* (xxh_u64) XXH_readLE32(p + off)
XXH_readLE32(p, off) == Tup8(LAMBDA i : IF i <= 4 THEN p[off + i] ELSE 0)

\* acc += input * PRIME64_2; acc = rotl(acc, 31); acc *= PRIME64_1
XXH64_round(acc, input) ==
    Mul64(Rotl64(Add64(acc, Mul64(input, XXH_PRIME64_2)), 31), XXH_PRIME64_1)

\* acc ^= round(0, val); acc = acc * PRIME64_1 + PRIME64_4
XXH64_mergeRound(acc, val) ==
    Add64(Mul64(Xor64(acc, XXH64_round(U64Zero, val)), XXH_PRIME64_1), XXH_PRIME64_4)

\* h ^= h >> r
XXH_xorshift64(h, r) == Bind1(h, LAMBDA x : Xor64(x, Shr64(x, r)))

XXH64_avalanche(hash) ==
    XXH_xorshift64(Mul64(XXH_xorshift64(Mul64(XXH_xorshift64(hash, 33),
                                              XXH_PRIME64_2), 29),
                         XXH_PRIME64_3), 32)

RECURSIVE XXH64_tail(_, _, _, _)
\* XXH64_finalize's three loops over the last len bytes of p, starting at off
XXH64_tail(hash, p, off, len) ==
    Bind1(hash, LAMBDA h :
        IF len >= 8 THEN
            XXH64_tail(Add64(Mul64(Rotl64(Xor64(h,
                                 XXH64_round(U64Zero, XXH_readLE64(p, off))), 27),
                             XXH_PRIME64_1), XXH_PRIME64_4),
                       p, off + 8, len - 8)
        ELSE IF len >= 4 THEN
            XXH64_tail(Add64(Mul64(Rotl64(Xor64(h,
                                 Mul64(XXH_readLE32(p, off), XXH_PRIME64_1)), 23),
                             XXH_PRIME64_2), XXH_PRIME64_3),
                       p, off + 4, len - 4)
        ELSE IF len > 0 THEN
            XXH64_tail(Mul64(Rotl64(Xor64(h,
                                 Mul64(ToU64(p[off + 1]), XXH_PRIME64_5)), 11),
                             XXH_PRIME64_1),
                       p, off + 1, len - 1)
        ELSE h)

XXH64_finalize(hash, p, off, len) == XXH64_avalanche(XXH64_tail(hash, p, off, len % 32))

RECURSIVE XXH64_stripes(_, _, _, _)
\* the 32-byte stripe loop: v is <<v1, v2, v3, v4>>, returns <<v, off>>
XXH64_stripes(v, p, off, len) ==
    Bind1(v, LAMBDA w :
        IF off + 32 <= len THEN
            XXH64_stripes(<<XXH64_round(w[1], XXH_readLE64(p, off)),
                            XXH64_round(w[2], XXH_readLE64(p, off + 8)),
                            XXH64_round(w[3], XXH_readLE64(p, off + 16)),
                            XXH64_round(w[4], XXH_readLE64(p, off + 24))>>,
                          p, off + 32, len)
        ELSE <<w, off>>)

\* the four accumulators folded into one value
XXH64_converge(v) ==
    Bind1(v, LAMBDA w :
        XXH64_mergeRound(XXH64_mergeRound(XXH64_mergeRound(XXH64_mergeRound(
            Add64(Add64(Rotl64(w[1], 1), Rotl64(w[2], 7)),
                  Add64(Rotl64(w[3], 12), Rotl64(w[4], 18))),
            w[1]), w[2]), w[3]), w[4]))

\* what follows the stripe loop: run is <<accumulators, bytes consumed>>
XXH64_afterStripes(run, p, len) ==
    Bind1(run, LAMBDA r :
        XXH64_finalize(Add64(XXH64_converge(r[1]), ToU64(len)), p, r[2], len))

\* XXH64(input, len, seed): p holds the bytes readable at input
XXH64(p, len, seed) ==
    Bind1(seed, LAMBDA s :
        IF len >= 32
        THEN XXH64_afterStripes(
                 XXH64_stripes(<<Add64(Add64(s, XXH_PRIME64_1), XXH_PRIME64_2),
                                 Add64(s, XXH_PRIME64_2),
                                 s,
                                 Add64(s, Neg64(XXH_PRIME64_1))>>, p, 0, len),
                 p, len)
        ELSE XXH64_finalize(Add64(Add64(s, XXH_PRIME64_5), ToU64(len)), p, 0, len))

(***************************************************************************)
(* Layer 3: the host and MexFunction::operator().                          *)
(*                                                                         *)
(* An Array is a handle [type, buf] on a reference-counted buffer of the   *)
(* heap; buf = 0 is a handle that holds nothing (moved-from, or released). *)
(* The host calls with one or two inputs and one or two output slots; a    *)
(* call with no input at all is outside the calling convention the file    *)
(* documents (hash = DataHash_v2_core(data)) and is not modelled.          *)
(***************************************************************************)
VARIABLES
    host,           \* the calling environment: threads, input sizes, what it records
    heap,           \* buffer id -> [live, data, refs]
    callerVar,      \* per call: the buffer the caller's own variable still holds, or 0
    inputs,         \* per call: the ArgumentList of inputs, a sequence of handles
    outputs,        \* per call: the ArgumentList of outputs, a sequence of slots
    orig,           \* per call: the inputs as the caller supplied them, [type, data] each
    pc,             \* per call: the statement about to run
    err,            \* per call: the exception that left operator(), or "none"
    prev,           \* the previous call as the caller saw it (when the host records it)
    seed,           \* per frame: unsigned long int seed
    bytestream,     \* per frame: TypedArray<uint8_t> bytestream
    nbytes,         \* per frame: size_t nbytes
    bytestream_bf,  \* per frame: buffer_ptr_t<uint8_t> bytestream_bf (owned buffer, or 0)
    pbytestream,    \* per frame: unsigned char* pbytestream
    hash,           \* per frame: XXH64_hash_t hash
    mathash         \* per frame: TypedArray<uint64_t> mathash

vars == <<host, heap, callerVar, inputs, outputs, orig, pc, err, prev, seed,
          bytestream, nbytes, bytestream_bf, pbytestream, hash, mathash>>

locals == <<seed, bytestream, nbytes, bytestream_bf, pbytestream, hash, mathash>>

\* the calls a host can have in flight
Slots == {1, 2}

\* buffer ids: per call the first input, a further input, and a copy made by release()
BufIds == 1..6

\* byte values the callers' arrays are made of ("abc" is 0x61 0x62 0x63)
Bytes == {97, 98, 99}

\* the sequences over B of at most n elements
SeqsUpTo(n, B) == UNION {[1..k -> B] : k \in 0..n}

FreeCell == [live |-> FALSE, data |-> <<>>, refs |-> 0]

\* a handle that holds nothing
NoArray == [type |-> "EMPTY", buf |-> 0]

\* an output slot nothing was assigned to
Unset == [type |-> "UNSET", dims |-> <<0, 0>>, data |-> <<>>]

NoPrev == [type |-> "NONE", data |-> <<>>, out |-> <<>>]

\* the allocator: the lowest buffer id not in use
Alloc(h) == CHOOSE b \in BufIds : ~h[b].live /\ \A b2 \in BufIds : b2 < b => h[b2].live

\* one handle on buffer b goes away; the last one frees the buffer
DecRef(h, b) ==
    IF b = 0 \/ ~h[b].live THEN h
    ELSE IF h[b].refs <= 1 THEN [h EXCEPT ![b] = FreeCell]
    ELSE [h EXCEPT ![b].refs = @ - 1]

RECURSIVE DropAll(_, _)
\* every handle of the sequence hs goes away
DropAll(h, hs) ==
    IF hs = <<>> THEN h ELSE DropAll(DecRef(h, Head(hs).buf), Tail(hs))

\* Array::getNumberOfElements()
NumberOfElements(h, a) == IF a.buf = 0 \/ ~h[a.buf].live THEN 0 ELSE Len(h[a.buf].data)

\* mutant: the locals have static storage, one frame for every call
FrameShared(c) == 1

\* the automatic storage of a call: every call has a frame of its own
Frame(c) == c

\* mutant: the buffer is released before the element count is read
OrderReleaseFirst == <<"L19", "L20", "L21", "L23", "L22", "L24", "L25", "L27", "L28">>

\* mutant: the hash is computed again and again
OrderRetry == <<"L19", "L20", "L21", "L22", "L23", "L24", "L25", "L25">>

\* the statements of operator() in the order they run (the source line of each)
Order == <<"L19", "L20", "L21", "L22", "L23", "L24", "L25", "L27", "L28">>

RECURSIVE IndexOf(_, _, _)
IndexOf(s, x, i) == IF s[i] = x THEN i ELSE IndexOf(s, x, i + 1)

\* the statement after l; after the last one the function returns
Succ(l) ==
    LET i == IndexOf(Order, l, 1)
    IN  IF i = Len(Order) THEN "ret" ELSE Order[i + 1]

Goto(c, l) == pc' = [pc EXCEPT ![c] = l]

(***************************************************************************)
(* The host.                                                               *)
(***************************************************************************)
HostSeq ==
    [threads |-> 1, maxlen |-> MaxLen, bytes |-> Bytes, track |-> FALSE, extras |-> TRUE]
HostHist ==
    [threads |-> 1, maxlen |-> MaxHistLen, bytes |-> Bytes, track |-> TRUE, extras |-> FALSE]
HostConc ==
    [threads |-> 2, maxlen |-> MaxConcLen, bytes |-> {97, 98}, track |-> FALSE,
     extras |-> FALSE]

InitWith(h) ==
    /\ host = h
    /\ heap = [b \in BufIds |-> FreeCell]
    /\ callerVar = [c \in Slots |-> 0]
    /\ inputs = [c \in Slots |-> <<>>]
    /\ outputs = [c \in Slots |-> <<>>]
    /\ orig = [c \in Slots |-> <<>>]
    /\ pc = [c \in Slots |-> "idle"]
    /\ err = [c \in Slots |-> "none"]
    /\ prev = NoPrev
    /\ seed = [c \in Slots |-> 0]
    /\ bytestream = [c \in Slots |-> NoArray]
    /\ nbytes = [c \in Slots |-> 0]
    /\ bytestream_bf = [c \in Slots |-> 0]
    /\ pbytestream = [c \in Slots |-> 0]
    /\ hash = [c \in Slots |-> U64Zero]
    /\ mathash = [c \in Slots |-> Unset]

Init == InitWith(HostSeq)

\* the arrays a caller passes first: any uint8 array, or an array of doubles
FirstArgs ==
    {[type |-> "UINT8", data |-> d] : d \in SeqsUpTo(host.maxlen, host.bytes)}
    \cup {[type |-> "DOUBLE", data |-> <<97>>]}

\* what a caller may pass after the first input: nothing, or one more array
ExtraArgs ==
    IF host.extras
    THEN {<<>>, <<[type |-> "UINT8", data |-> <<>>]>>, <<[type |-> "UINT8", data |-> <<98>>]>>}
    ELSE {<<>>}

\* the output slots the caller asks for
NLhs == IF host.extras THEN {1, 2} ELSE {1}

\* hash = DataHash_v2_core(data, ...): the host builds the argument lists and calls
Invoke(c) ==
    /\ pc[c] = "idle"
    /\ c <= host.threads
    /\ \E a \in FirstArgs, x \in ExtraArgs, shared \in BOOLEAN, nlhs \in NLhs :
          LET b1 == Alloc(heap)
              h1 == [heap EXCEPT ![b1] = [live |-> TRUE, data |-> a.data,
                                          refs |-> IF shared THEN 2 ELSE 1]]
              b2 == Alloc(h1)
              h2 == IF x = <<>> THEN h1
                    ELSE [h1 EXCEPT ![b2] = [live |-> TRUE, data |-> x[1].data,
                                             refs |-> 1]]
          IN  /\ heap' = h2
              /\ callerVar' = [callerVar EXCEPT ![c] = IF shared THEN b1 ELSE 0]
              /\ inputs' = [inputs EXCEPT ![c] =
                               <<[type |-> a.type, buf |-> b1]>>
                               \o (IF x = <<>> THEN <<>>
                                   ELSE <<[type |-> x[1].type, buf |-> b2]>>)]
              /\ outputs' = [outputs EXCEPT ![c] = [i \in 1..nlhs |-> Unset]]
              /\ orig' = [orig EXCEPT ![c] = <<a>> \o x]
    /\ err' = [err EXCEPT ![c] = "none"]
    /\ Goto(c, Order[1])
    /\ UNCHANGED <<host, prev, locals>>

\* the caller takes the result (or the error) and lets go of its arguments; a host
\* that records calls keeps this call's input and result, or the record it had
Collect(c) ==
    /\ pc[c] \in {"done", "error"}
    /\ heap' = DecRef(DropAll(heap, inputs[c]), callerVar[c])
    /\ prev' = IF host.track
               THEN [type |-> orig[c][1].type, data |-> orig[c][1].data,
                     out |-> IF pc[c] = "done" THEN outputs[c] ELSE <<>>]
               ELSE prev
    /\ callerVar' = [callerVar EXCEPT ![c] = 0]
    /\ inputs' = [inputs EXCEPT ![c] = <<>>]
    /\ outputs' = [outputs EXCEPT ![c] = <<>>]
    /\ orig' = [orig EXCEPT ![c] = <<>>]
    /\ err' = [err EXCEPT ![c] = "none"]
    /\ Goto(c, "idle")
    /\ UNCHANGED <<host, locals>>

(***************************************************************************)
(* MexFunction::operator(), statement by statement.                        *)
(***************************************************************************)
\* mutant: the seed is taken from a second input when there is one
SeedFromSecondInput(c) ==
    IF Len(inputs[c]) > 1 THEN NumberOfElements(heap, inputs[c][2]) ELSE 0

\* mutant: the seed is left over from an earlier call
SeedCarried(c) == IF prev = NoPrev THEN 0 ELSE 1

\* mutant: the seed is not 0
SeedNonZero(c) == 1

\* the initial value of seed
SeedValue(c) == 0

\* unsigned long int seed = 0;
L19(c) ==
    /\ pc[c] = "L19"
    /\ seed' = [seed EXCEPT ![Frame(c)] = SeedValue(c)]
    /\ Goto(c, Succ("L19"))
    /\ UNCHANGED <<host, heap, callerVar, inputs, outputs, orig, err, prev,
                   bytestream, nbytes, bytestream_bf, pbytestream, hash, mathash>>

\* matlab::data::ArrayFactory factory;
L20(c) ==
    /\ pc[c] = "L20"
    /\ Goto(c, Succ("L20"))
    /\ UNCHANGED <<host, heap, callerVar, inputs, outputs, orig, err, prev, locals>>

\* mutant: no check of the element type
AcceptsAnyType(t) == TRUE

\* whether TypedArray<uint8_t> accepts an array of element type t
IsValidConversion(t) == t = "UINT8"

\* TypedArray<uint8_t> bytestream = std::move(inputs[0]);  the conversion succeeds:
\* the handle moves out of the argument list into bytestream
L21(c) ==
    /\ pc[c] = "L21"
    /\ IsValidConversion(inputs[c][1].type)
    /\ bytestream' = [bytestream EXCEPT ![Frame(c)] = inputs[c][1]]
    /\ inputs' = [inputs EXCEPT ![c][1] = NoArray]
    /\ Goto(c, Succ("L21"))
    /\ UNCHANGED <<host, heap, callerVar, outputs, orig, err, prev, seed, nbytes,
                   bytestream_bf, pbytestream, hash, mathash>>

\* the same statement on an array that is not uint8: the TypedArray constructor
\* throws InvalidArrayTypeException, nothing catches it and it leaves operator().
\* Whether the constructor had already taken the handle out of the argument list
\* is the header's business: both outcomes are possible here.
L21Throw(c) ==
    /\ pc[c] = "L21"
    /\ ~IsValidConversion(inputs[c][1].type)
    /\ \E taken \in BOOLEAN :
          IF taken
          THEN /\ inputs' = [inputs EXCEPT ![c][1] = NoArray]
               /\ heap' = DecRef(heap, inputs[c][1].buf)
          ELSE UNCHANGED <<inputs, heap>>
    /\ err' = [err EXCEPT ![c] = "InvalidArrayType"]
    /\ seed' = [seed EXCEPT ![Frame(c)] = 0]
    /\ Goto(c, "error")
    /\ UNCHANGED <<host, callerVar, outputs, orig, prev, bytestream, nbytes,
                   bytestream_bf, pbytestream, hash, mathash>>

\* size_t nbytes = bytestream.getNumberOfElements();
L22(c) ==
    /\ pc[c] = "L22"
    /\ nbytes' = [nbytes EXCEPT ![Frame(c)] = NumberOfElements(heap, bytestream[Frame(c)])]
    /\ Goto(c, Succ("L22"))
    /\ UNCHANGED <<host, heap, callerVar, inputs, outputs, orig, err, prev, seed,
                   bytestream, bytestream_bf, pbytestream, hash, mathash>>

\* mutant: release() hands out the buffer itself even when it is shared
ReleaseNeverCopies(h, b) == FALSE

\* release() copies the buffer when some other handle shares it
ReleaseCopies(h, b) == h[b].refs > 1

\* buffer_ptr_t<uint8_t> bytestream_bf = bytestream.release();
\* the buffer (or a copy of it, when shared) now belongs to bytestream_bf and the
\* array holds no elements
L23(c) ==
    /\ pc[c] = "L23"
    /\ LET b == bytestream[Frame(c)].buf
       IN  IF b = 0
           THEN /\ bytestream_bf' = [bytestream_bf EXCEPT ![Frame(c)] = 0]
                /\ heap' = heap
           ELSE IF ReleaseCopies(heap, b)
           THEN LET n == Alloc(heap)
                IN  /\ heap' = [heap EXCEPT ![b].refs = @ - 1,
                                            ![n] = [live |-> TRUE, data |-> heap[b].data,
                                                    refs |-> 1]]
                    /\ bytestream_bf' = [bytestream_bf EXCEPT ![Frame(c)] = n]
           ELSE /\ bytestream_bf' = [bytestream_bf EXCEPT ![Frame(c)] = b]
                /\ heap' = heap
    /\ bytestream' = [bytestream EXCEPT ![Frame(c)] = [type |-> "UINT8", buf |-> 0]]
    /\ Goto(c, Succ("L23"))
    /\ UNCHANGED <<host, callerVar, inputs, outputs, orig, err, prev, seed, nbytes,
                   pbytestream, hash, mathash>>

\* unsigned char* pbytestream = bytestream_bf.get();
L24(c) ==
    /\ pc[c] = "L24"
    /\ pbytestream' = [pbytestream EXCEPT ![Frame(c)] = bytestream_bf[Frame(c)]]
    /\ Goto(c, Succ("L24"))
    /\ UNCHANGED <<host, heap, callerVar, inputs, outputs, orig, err, prev, seed,
                   bytestream, nbytes, bytestream_bf, hash, mathash>>

\* what reading n bytes at pointer p can give: the buffer's first n bytes, or, past
\* its end or in memory that is not a live buffer, anything (undefined behaviour)
Mem(h, p, n) ==
    IF n = 0 THEN {<<>>}
    ELSE IF p # 0 /\ h[p].live /\ n <= Len(h[p].data) THEN {SubSeq(h[p].data, 1, n)}
    ELSE [1..n -> host.bytes]

\* mutant: the length is one short
LenArgShort(c) == IF nbytes[Frame(c)] > 0 THEN nbytes[Frame(c)] - 1 ELSE 0

\* the arguments of the XXH64 call
PtrArg(c) == pbytestream[Frame(c)]
LenArg(c) == nbytes[Frame(c)]
SeedArg(c) == ToU64(seed[Frame(c)])

\* XXH64_hash_t hash = XXH64(pbytestream, nbytes, seed);
L25(c) ==
    /\ pc[c] = "L25"
    /\ \E p \in Mem(heap, PtrArg(c), LenArg(c)) :
          hash' = [hash EXCEPT ![Frame(c)] = XXH64(p, LenArg(c), SeedArg(c))]
    /\ Goto(c, Succ("L25"))
    /\ UNCHANGED <<host, heap, callerVar, inputs, outputs, orig, err, prev, seed,
                   bytestream, nbytes, bytestream_bf, pbytestream, mathash>>

\* mutant: the value goes through a 32-bit integer on the way
CreateScalarNarrow(v) ==
    [type |-> "UINT64", dims |-> <<1, 1>>,
     data |-> <<Tup8(LAMBDA i : IF i <= 4 THEN v[i] ELSE 0)>>]

\* factory.createScalar<uint64_t>(v): a 1-by-1 uint64 array holding v
CreateScalar(v) == [type |-> "UINT64", dims |-> <<1, 1>>, data |-> <<v>>]

\* TypedArray<uint64_t> mathash = factory.createScalar<uint64_t>(hash);
L27(c) ==
    /\ pc[c] = "L27"
    /\ mathash' = [mathash EXCEPT ![Frame(c)] = CreateScalar(hash[Frame(c)])]
    /\ Goto(c, Succ("L27"))
    /\ UNCHANGED <<host, heap, callerVar, inputs, outputs, orig, err, prev, seed,
                   bytestream, nbytes, bytestream_bf, pbytestream, hash>>

\* outputs[0] = mathash;
L28(c) ==
    /\ pc[c] = "L28"
    /\ outputs' = [outputs EXCEPT ![c][1] = mathash[Frame(c)]]
    /\ Goto(c, Succ("L28"))
    /\ UNCHANGED <<host, heap, callerVar, inputs, orig, err, prev, locals>>

\* the closing brace: the locals are destroyed; bytestream_bf frees the buffer it
\* owns, bytestream lets go of whatever it still holds
Return(c) ==
    /\ pc[c] = "ret"
    /\ LET own  == bytestream_bf[Frame(c)]
           h1   == IF own = 0 THEN heap ELSE [heap EXCEPT ![own] = FreeCell]
       IN  heap' = DecRef(h1, bytestream[Frame(c)].buf)
    /\ seed' = [seed EXCEPT ![Frame(c)] = 0]
    /\ bytestream' = [bytestream EXCEPT ![Frame(c)] = NoArray]
    /\ nbytes' = [nbytes EXCEPT ![Frame(c)] = 0]
    /\ bytestream_bf' = [bytestream_bf EXCEPT ![Frame(c)] = 0]
    /\ pbytestream' = [pbytestream EXCEPT ![Frame(c)] = 0]
    /\ hash' = [hash EXCEPT ![Frame(c)] = U64Zero]
    /\ mathash' = [mathash EXCEPT ![Frame(c)] = Unset]
    /\ Goto(c, "done")
    /\ UNCHANGED <<host, callerVar, inputs, outputs, orig, err, prev>>

\* one step of call c inside operator()
Step(c) ==
    \/ L19(c)
    \/ L20(c)
    \/ L21(c)
    \/ L21Throw(c)
    \/ L22(c)
    \/ L23(c)
    \/ L24(c)
    \/ L25(c)
    \/ L27(c)
    \/ L28(c)
    \/ Return(c)

Next ==
    \E c \in Slots :
        \/ Invoke(c)
        \/ Step(c)
        \/ Collect(c)

\* one call at a time, any inputs, one or two arguments and output slots
Spec == Init /\ [][Next]_vars

\* one call at a time, the caller keeps the previous call's input and result
SpecHist == InitWith(HostHist) /\ [][Next]_vars

\* two calls at once, their statements interleaved
SpecConc == InitWith(HostConc) /\ [][Next]_vars

\* Spec, with a thread that is inside operator() always getting to run
FairSpec == Spec /\ \A c \in Slots : WF_vars(Step(c))

(***************************************************************************)
(* The claims.                                                             *)
(***************************************************************************)
\* the first input of call c as the caller supplied it
Data(c) == orig[c][1].data

\* call c was given a uint8 array
Valid(c) == orig[c] # <<>> /\ orig[c][1].type = "UINT8"

\* the XXH64 digest of the bytes d at seed 0
Digest(d) == XXH64(d, Len(d), U64Zero)

\* 0x44BC2CF5AD770999, the reference XXH64 digest of "abc" at seed 0
DigestAbc == <<153, 9, 119, 173, 245, 44, 188, 68>>

\* 0xEF46DB3751D8E999, the reference XXH64 digest of the empty input at seed 0
DigestEmpty == <<153, 233, 216, 81, 55, 219, 70, 239>>

\* call c is between its first statement and its return
InCall(c) == pc[c] \notin {"idle", "done", "error"}

\* C1: a call on a uint8 array of n elements returns XXH64 of exactly those n bytes,
\* in order, at seed 0; the seed is 0 in every call whatever the inputs are; the
\* bytes 0x61 0x62 0x63 give the reference digest of "abc".
C1_HashOfInputBytes ==
    \A c \in Slots :
        /\ (InCall(c) /\ pc[c] # "L19") => seed[Frame(c)] = 0
        /\ pc[c] = "done" =>
              /\ outputs[c][1].data = <<Digest(Data(c))>>
              /\ Data(c) = <<97, 98, 99>> => outputs[c][1].data[1] = DigestAbc

C1_Witness ==
    \E c \in Slots :
        /\ pc[c] = "done"
        /\ Data(c) = <<97, 98, 99>>
        /\ outputs[c][1].data[1] = DigestAbc

\* C2: in a sequence of calls, a call given the same bytes as an earlier call returns
\* the same hash as that call did, whatever calls happened before or in between.
C2_SameInputSameHash ==
    \A c \in Slots :
        (pc[c] = "done" /\ prev.type = "UINT8" /\ prev.data = Data(c))
            => outputs[c][1] = prev.out[1]

C2_Witness ==
    \E c \in Slots :
        /\ pc[c] = "done"
        /\ prev.type = "UINT8"
        /\ prev.data = Data(c)
        /\ Len(Data(c)) > 0
        /\ outputs[c][1] = prev.out[1]

\* C3 as stated: after a call the input array holds the same elements, in the same
\* number, as before the call; the call did not empty or free it.
C3_InputArrayUntouched ==
    \A c \in Slots :
        pc[c] = "done" =>
            /\ inputs[c][1].buf # 0
            /\ heap[inputs[c][1].buf].live
            /\ heap[inputs[c][1].buf].data = Data(c)

\* C3 as amended: data the caller still holds through a handle of its own has the
\* same elements, in the same number, during and after the call, and the inputs after
\* the first keep their arrays; the first argument itself is moved from and left
\* empty, and a buffer nothing else shares is taken by the call and freed on return
\* (with one call at a time, the only buffers then left are those of further inputs).
C3_CallerDataKept ==
    \A c \in Slots :
        /\ callerVar[c] # 0 =>
              /\ heap[callerVar[c]].live
              /\ heap[callerVar[c]].data = Data(c)
        /\ \A i \in 2..Len(inputs[c]) :
              /\ inputs[c][i].buf # 0
              /\ heap[inputs[c][i].buf].live
              /\ heap[inputs[c][i].buf].data = orig[c][i].data
        /\ pc[c] = "done" =>
              /\ inputs[c][1] = NoArray
              /\ callerVar[c] = 0 =>
                    \A b \in BufIds :
                        heap[b].live => \E i \in 2..Len(inputs[c]) : inputs[c][i].buf = b

C3_Witness ==
    \E c \in Slots :
        /\ pc[c] = "done"
        /\ callerVar[c] # 0
        /\ Len(Data(c)) > 0
        /\ heap[callerVar[c]].data = Data(c)
        /\ inputs[c][1] = NoArray

\* C4: a call whose first input is not a uint8 array fails with the one error kind
\* there is (the TypedArray constructor's InvalidArrayTypeException): it never gets
\* past the conversion, nothing is hashed and no output is set; and that error is
\* raised for nothing else.
C4_WrongTypeFails ==
    \A c \in Slots :
        /\ (orig[c] # <<>> /\ ~Valid(c)) =>
              /\ pc[c] \in {"L19", "L20", "L21", "error"}
              /\ \A i \in 1..Len(outputs[c]) : outputs[c][i] = Unset
              /\ pc[c] = "error" => err[c] = "InvalidArrayType"
        /\ err[c] \in {"none", "InvalidArrayType"}
        /\ err[c] # "none" => (pc[c] = "error" /\ ~Valid(c))

C4_Witness ==
    \E c \in Slots :
        /\ pc[c] = "error"
        /\ orig[c][1].type = "DOUBLE"
        /\ err[c] = "InvalidArrayType"
        /\ outputs[c][1] = Unset

\* C5: a call on a uint8 array of no elements does not fail, passes length 0 to XXH64
\* and returns the reference digest of the empty input at seed 0, every time.
C5_EmptyInput ==
    \A c \in Slots :
        (Valid(c) /\ Data(c) = <<>>) =>
            /\ pc[c] # "error"
            /\ err[c] = "none"
            /\ pc[c] = "L25" => (LenArg(c) = 0 /\ SeedArg(c) = U64Zero)
            /\ pc[c] = "done" => outputs[c][1].data = <<DigestEmpty>>

C5_Witness ==
    \E c \in Slots :
        /\ pc[c] = "done"
        /\ Valid(c)
        /\ Data(c) = <<>>
        /\ outputs[c][1].data = <<DigestEmpty>>

\* C6: between the XXH64 call and the output the value is not changed: the scalar
\* made from hash, and the output assigned from it, is an unsigned 64-bit array whose
\* one element is all 64 bits of hash.
C6_FullWidthUnsigned ==
    \A c \in Slots :
        /\ pc[c] \in {"L27", "L28", "ret"} => hash[Frame(c)] \in [1..8 -> Byte]
        /\ pc[c] \in {"L28", "ret"} =>
              /\ mathash[Frame(c)].type = "UINT64"
              /\ mathash[Frame(c)].data = <<hash[Frame(c)]>>
        /\ pc[c] = "ret" =>
              /\ outputs[c][1].type = "UINT64"
              /\ outputs[c][1].data = <<hash[Frame(c)]>>

\* a returned value with bit 63 set and bits above the low 32 set
C6_Witness ==
    \E c \in Slots :
        /\ pc[c] = "ret"
        /\ hash[Frame(c)][8] >= 128
        /\ hash[Frame(c)][5] # 0
        /\ outputs[c][1].data = <<hash[Frame(c)]>>

\* C7: with two calls running at once, each on its own input, under every
\* interleaving each call returns the digest of its own input, the one it returns
\* when run alone, and no two calls in flight own or point at the same buffer.
C7_ConcurrentCallsIndependent ==
    \A c \in Slots :
        /\ (pc[c] = "done" /\ Valid(c)) => outputs[c][1].data[1] = Digest(Data(c))
        /\ \A d \in Slots \ {c} :
              (InCall(c) /\ InCall(d) /\ bytestream_bf[Frame(c)] # 0)
                  => /\ bytestream_bf[Frame(c)] # bytestream_bf[Frame(d)]
                     /\ bytestream_bf[Frame(c)] # pbytestream[Frame(d)]

\* one call has returned its digest while the other, on other bytes, is at the hash
C7_Witness ==
    /\ pc[1] = "done"
    /\ pc[2] = "L25"
    /\ Data(1) # Data(2)
    /\ outputs[1][1].data[1] = Digest(Data(1))

\* C8: a call on a uint8 array, once begun, gets to return with its output assigned
\* (no statement blocks, waits or repeats), provided its thread keeps running.
C8_ValidCallReturns ==
    \A c \in Slots :
        (pc[c] = "L19" /\ Valid(c)) ~> (pc[c] = "done" /\ outputs[c][1].type = "UINT64")

C8_Witness ==
    \E c \in Slots :
        /\ pc[c] = "done"
        /\ Valid(c)
        /\ outputs[c][1].type = "UINT64"

C10_CountReadBeforeRelease ==
    \A c \in Slots :
        /\ pc[c] = "L22" => bytestream[Frame(c)].buf # 0
        /\ pc[c] = "L23" => nbytes[Frame(c)] = Len(Data(c))
        /\ pc[c] = "L25" =>
              /\ LenArg(c) = Len(Data(c))
              /\ PtrArg(c) # 0
              /\ heap[PtrArg(c)].live
              /\ heap[PtrArg(c)].data = Data(c)
              /\ Mem(heap, PtrArg(c), LenArg(c)) = {Data(c)}

\* at the XXH64 call, on a copy that release() made of a shared array of 3 elements
C10_Witness ==
    \E c \in Slots :
        /\ pc[c] = "L25"
        /\ Len(Data(c)) = 3
        /\ callerVar[c] # 0
        /\ PtrArg(c) # callerVar[c]
        /\ LenArg(c) = 3

====
